---- MODULE Spec2Model ----
(***************************************************************************)
(* Payment-authorization core of the AutoWealth agent backend:             *)
(*   policy engine      backend/src/policy/engine.ts, policy/rules.ts      *)
(*   treasury ledger    backend/src/treasury/wallet.service.ts             *)
(*   payment executor   backend/src/payments/executor.ts                   *)
(*   safety gates       backend/src/lib/safety.ts                          *)
(*                                                                         *)
(* Units.  Every amount is an integer number of mills (1/1000 USDC).  The  *)
(* code keeps balance.reserved and balance.available as decimal strings    *)
(* produced by Number.toFixed(2); the model keeps the number such a string *)
(* denotes, so these two fields are always multiples of 10 mills.  Request *)
(* amounts are strings and are kept as strings; parseAmount converts them. *)
(*                                                                         *)
(* Scheduling.  The backend is a single Node.js event loop.  An await on   *)
(* an in-memory async function (validatePayment, getWallet, reserveFunds,  *)
(* recordTransaction, updateTransactionStatus, releaseFunds) resumes in    *)
(* the same microtask drain, so no other request handler runs in between.  *)
(* A handler yields to other handlers only while it awaits network I/O:    *)
(* the Circle calls getWalletTokenBalance and createTransaction.  Each     *)
(* action below is one such run-to-completion segment.                     *)
(***************************************************************************)
EXTENDS Integers, Sequences, FiniteSets, TLC

(***************************************************************************)
(* Bounds of the model.                                                    *)
(***************************************************************************)
MaxTx == 2            \* transactions recorded in one behaviour
MaxPolicies == 1      \* policies held by the engine at once
MaxCalls == 3         \* direct ledger calls logged in LedgerSpec
MaxPaid == 1          \* transactions recorded in one behaviour of PolicySpec

Users == {"alice", "bob"}
NoUser == "undefined"
Procs == {"h1", "h2"}
Recipients == {"0xabc", "0xDEF"}
NoCategory == "undefined"

(***************************************************************************)
(* Amount strings and parseAmount (lib/amount.ts).                         *)
(***************************************************************************)
NumericValue ==
    ("0" :> 0) @@ ("0.004" :> 4) @@ ("0.005" :> 5) @@ ("0.01" :> 10) @@
    ("0.02" :> 20) @@ ("0.03" :> 30) @@ ("0.1" :> 100) @@ ("0.2" :> 200) @@
    ("0.3" :> 300) @@ ("1.00" :> 1000)

AmountStrings == {"abc", "0", "0.004", "0.005", "0.01", "0.02"}

\* parseAmount: null for a string that does not parse to a finite number
parseAmount(value) ==
    IF value \in DOMAIN NumericValue
    THEN [isNull |-> FALSE, n |-> NumericValue[value]]
    ELSE [isNull |-> TRUE, n |-> 0]

(***************************************************************************)
(* Number.prototype.toFixed(2) applied to the double x (+) y.  x and y are *)
(* the operands in mills (y negative for a subtraction), the result is in  *)
(* mills and is a multiple of 10.  Away from a tie the nearest cent is     *)
(* taken.  At a tie (..5 mills) toFixed rounds the binary double that the  *)
(* floating-point operation produced, which lies just above or just below  *)
(* the decimal tie; the two sets list, per whole-cent operand c, the cases *)
(* where fl(c/100) + fl(0.005), resp. fl(c/100) - fl(0.005), prints        *)
(* rounded up (IEEE-754 binary64, as in V8).                               *)
(***************************************************************************)
TiePlusUpCents == {0, 2, 5, 6, 7, 8, 9, 10, 11, 12, 9987, 9990, 9993}
TieMinusUpCents ==
    {1, 4, 5, 6, 7, 10, 9986, 9987, 9988, 9989, 9990, 9991, 9992, 9993,
     9994, 9995, 9997, 9998, 10000}

TieRoundsUp(x, y) ==
    \/ y = 5 /\ (x \div 10) \in TiePlusUpCents
    \/ y = -5 /\ (x \div 10) \in TieMinusUpCents

toFixed2(x, y) ==
    LET s == x + y
        r == s % 10
    IN  IF r < 5 THEN s - r
        ELSE IF r > 5 THEN s - r + 10
        ELSE IF TieRoundsUp(x, y) THEN s + 5 ELSE s - 5

Min(a, b) == IF a <= b THEN a ELSE b
Max(a, b) == IF a >= b THEN a ELSE b

(***************************************************************************)
(* State.                                                                  *)
(***************************************************************************)
VARIABLES
    walletIdConfigured,   \* config.CIRCLE_WALLET_ID is set
    wallet,               \* store.wallet # null
    balance,              \* store.balance: [amount, reserved, available]
    cachedTokenId,        \* cachedTokenId # null
    transactions,         \* store.transactions, newest first
    policies,             \* the engine's policies map, in insertion order
    paymentsPaused,       \* state.safety.paymentsPaused
    safeModeByUser,       \* state.safety.safeModeByUser (absent = FALSE)
    approvedSpendByUser,  \* state.safety.approvedSpendByUser (absent = FALSE)
    now,                  \* the server clock, in calendar days
    pc,                   \* per handler: where its executePayment call waits
    req,                  \* per handler: request.userId and request.amount
    txOf,                 \* per handler: tx.id of the transaction it recorded
    returned,             \* the PaymentResult returned last, and by whom
    ledgerLog             \* direct reserveFunds/releaseFunds calls (LedgerSpec)

vars == <<walletIdConfigured, wallet, balance, cachedTokenId, transactions,
          policies, paymentsPaused, safeModeByUser, approvedSpendByUser, now,
          pc, req, txOf, returned, ledgerLog>>

(***************************************************************************)
(* Treasury ledger: reserveFunds / releaseFunds (wallet.service.ts).       *)
(***************************************************************************)
\* reserveFunds writing the new reserved total before the funds check
reserveFundsWriteFirst(bal, amount) ==
    LET toReserve == parseAmount(amount)
        written == [bal EXCEPT
                       !.reserved = toFixed2(bal.reserved, toReserve.n)]
    IN  IF toReserve.isNull \/ toReserve.n <= 0
        THEN [ret |-> FALSE, balance |-> bal]
        ELSE IF toReserve.n > bal.available
        THEN [ret |-> FALSE, balance |-> written]
        ELSE [ret |-> TRUE,
              balance |-> [written EXCEPT
                  !.available = toFixed2(bal.available, -toReserve.n)]]

\* reserveFunds(amount): the value returned and the balance it leaves
reserveFunds(bal, amount) ==
    LET toReserve == parseAmount(amount)
    IN  IF toReserve.isNull \/ toReserve.n <= 0
        THEN [ret |-> FALSE, balance |-> bal]
        ELSE IF toReserve.n > bal.available
        THEN [ret |-> FALSE, balance |-> bal]
        ELSE [ret |-> TRUE,
              balance |-> [bal EXCEPT
                  !.reserved = toFixed2(bal.reserved, toReserve.n),
                  !.available = toFixed2(bal.available, -toReserve.n)]]

\* releaseFunds(amount): the balance it leaves
releaseFunds(bal, amount) ==
    LET parsedAmount == parseAmount(amount)
        toRelease == Min(parsedAmount.n, bal.reserved)
    IN  IF bal.reserved = 0 \/ parsedAmount.isNull \/ parsedAmount.n <= 0
        THEN bal
        ELSE [bal EXCEPT
                  !.reserved = toFixed2(bal.reserved, -toRelease),
                  !.available = toFixed2(bal.available, toRelease)]

(***************************************************************************)
(* Transaction log: recordTransaction, getTransactionHistory,              *)
(* updateTransactionStatus (wallet.service.ts).                            *)
(***************************************************************************)
NoDate == -1          \* confirmedAt undefined
HistoryLimit == 50    \* default limit of getTransactionHistory

\* recordTransaction(tx): unshift a transaction with a fresh id and createdAt
recordTransaction(txs, id, tx, createdAt) ==
    <<[id |-> id, userId |-> tx.userId, amount |-> tx.amount,
       status |-> tx.status, category |-> tx.category, txHash |-> tx.txHash,
       createdAt |-> createdAt, confirmedAt |-> NoDate]>> \o txs

\* updateTransactionStatus(txId, status, txHash): the log it leaves
updateTransactionStatus(txs, txId, status, txHash, at) ==
    [i \in 1..Len(txs) |->
        IF txs[i].id # txId THEN txs[i]
        ELSE [txs[i] EXCEPT
                 !.status = status,
                 !.txHash = IF txHash # "" THEN txHash ELSE @,
                 !.confirmedAt = IF status = "confirmed" THEN at ELSE @]]

\* getTransactionHistory({status, startDate}, userId) with the default
\* limit and offset; "any" / NoUser / NoDate stand for an absent filter
getTransactionHistory(txs, status, startDate, userId) ==
    LET byUser(tx) == userId = NoUser \/ tx.userId = userId
        byStatus(tx) == status = "any" \/ tx.status = status
        effective(tx) == IF tx.confirmedAt # NoDate THEN tx.confirmedAt
                         ELSE tx.createdAt
        byStart(tx) == startDate = NoDate \/ effective(tx) >= startDate
        keep(tx) == byUser(tx) /\ byStatus(tx) /\ byStart(tx)
        filtered == SelectSeq(txs, keep)
    IN  SubSeq(filtered, 1, Min(HistoryLimit, Len(filtered)))

(***************************************************************************)
(* Rule evaluators (policy/rules.ts).  Dates are calendar days; a month    *)
(* has DaysPerMonth days.                                                  *)
(***************************************************************************)
DaysPerMonth == 2

dayStart(t) == t
monthStart(t) == t - (t % DaysPerMonth)

toLowerCase ==
    ("0xabc" :> "0xabc") @@ ("0xABC" :> "0xabc") @@
    ("0xDEF" :> "0xdef") @@ ("0xdef" :> "0xdef")

\* the date a transaction counts for: confirmedAt ?? createdAt
effectiveDate(tx) ==
    IF tx.confirmedAt # NoDate THEN tx.confirmedAt ELSE tx.createdAt

\* A double that a sum of amounts produced: m is the decimal sum in mills
\* and u the distance, in units in the last place, of the double from the
\* double nearest to m/1000.  A parsed amount has u = 0.  FloatDrift lists
\* the additions x + fl(a/1000) of IEEE-754 binary64 whose result is not the
\* double nearest to the decimal sum, as <<x.m, x.u, a>> :> u of the
\* result, among the left-to-right sums of up to four amounts of 0.1 and
\* 0.2 (0.1 + 0.2 is 0.30000000000000004); the sums of up to four amounts
\* of 0.01 are all the nearest double.
FloatDrift ==
    (<<100, 0, 200>> :> 1) @@ (<<200, 0, 100>> :> 1) @@
    (<<400, 0, 200>> :> 1) @@ (<<600, 1, 100>> :> 1)

\* x + a of doubles
floatAdd(x, a) ==
    [m |-> x.m + a,
     u |-> IF <<x.m, x.u, a>> \in DOMAIN FloatDrift
           THEN FloatDrift[<<x.m, x.u, a>>] ELSE 0]

\* x > limit of doubles, limit a parsed amount
floatGreater(x, limit) == x.m > limit \/ (x.m = limit /\ x.u > 0)

RECURSIVE SumFrom(_, _)
\* reduce((sum, tx) => sum + (parseAmount(tx.amount) || 0), sum), the
\* transactions added from left to right: the first half of the sequence,
\* then the second half onto the accumulator of the first.  (Amounts are
\* never negative, and neither is an accumulator: the test makes the
\* accumulator a value before the second half is added to it.)
SumFrom(sum, txs) ==
    IF txs = <<>> THEN sum
    ELSE IF Len(txs) = 1
    THEN floatAdd(sum, parseAmount(Head(txs).amount).n)
    ELSE LET half == Len(txs) \div 2
             first == SumFrom(sum, SubSeq(txs, 1, half))
         IN  IF first.m >= 0
             THEN SumFrom(first, SubSeq(txs, half + 1, Len(txs)))
             ELSE first

SumAmounts(txs) == SumFrom([m |-> 0, u |-> 0], txs)

\* !amount || amount <= 0 || !limit || limit <= 0
InvalidPair(amount, limit) ==
    \/ amount.isNull \/ amount.n <= 0
    \/ limit.isNull \/ limit.n <= 0

maxPerTransaction(params, ctx, txs, t) ==
    LET max == parseAmount(params.max)
        amount == parseAmount(ctx.amount)
    IN  IF InvalidPair(amount, max) THEN FALSE
        ELSE ~(amount.n > max.n)

dailyLimit(params, ctx, txs, t) ==
    LET limit == parseAmount(params.limit)
        amount == parseAmount(ctx.amount)
        history == getTransactionHistory(txs, "confirmed", NoDate, NoUser)
        inDay(tx) == effectiveDate(tx) >= dayStart(t)
        todaySpend == SumAmounts(SelectSeq(history, inDay))
    IN  IF InvalidPair(amount, limit) THEN FALSE
        ELSE ~floatGreater(floatAdd(todaySpend, amount.n), limit.n)

monthlyBudget(params, ctx, txs, t) ==
    LET budget == parseAmount(params.budget)
        amount == parseAmount(ctx.amount)
        history == getTransactionHistory(txs, "confirmed", NoDate, NoUser)
        inMonth(tx) == effectiveDate(tx) >= monthStart(t)
        monthSpend == SumAmounts(SelectSeq(history, inMonth))
    IN  IF InvalidPair(amount, budget) THEN FALSE
        ELSE ~floatGreater(floatAdd(monthSpend, amount.n), budget.n)

vendorWhitelist(params, ctx, txs, t) ==
    LET allowed == params.addresses
    IN  IF Len(allowed) = 0 THEN FALSE
        ELSE \E i \in 1..Len(allowed) :
                 toLowerCase[allowed[i]] = toLowerCase[ctx.recipient]

categoryLimit(params, ctx, txs, t) ==
    LET limits == params.limits
        category == IF ctx.category = NoCategory THEN "uncategorized"
                    ELSE ctx.category
        amount == parseAmount(ctx.amount)
        history == getTransactionHistory(txs, "confirmed", NoDate, NoUser)
        inCat(tx) == tx.category = category /\
                     effectiveDate(tx) >= monthStart(t)
        categorySpend == SumAmounts(SelectSeq(history, inCat))
    IN  IF category \notin DOMAIN limits THEN TRUE
        ELSE IF InvalidPair(amount, parseAmount(limits[category])) THEN FALSE
        ELSE ~floatGreater(floatAdd(categorySpend, amount.n),
                           parseAmount(limits[category]).n)

\* evaluateRule with a type without evaluator passing
evaluateRuleUnknownPasses(rule, ctx, txs, t) ==
    CASE rule.type = "maxPerTransaction" ->
             maxPerTransaction(rule.params, ctx, txs, t)
      [] rule.type = "dailyLimit" -> dailyLimit(rule.params, ctx, txs, t)
      [] rule.type = "monthlyBudget" ->
             monthlyBudget(rule.params, ctx, txs, t)
      [] rule.type = "vendorWhitelist" ->
             vendorWhitelist(rule.params, ctx, txs, t)
      [] rule.type = "categoryLimit" ->
             categoryLimit(rule.params, ctx, txs, t)
      [] OTHER -> TRUE

\* evaluateRule(rule, ctx).passed; a type without evaluator fails
evaluateRule(rule, ctx, txs, t) ==
    CASE rule.type = "maxPerTransaction" ->
             maxPerTransaction(rule.params, ctx, txs, t)
      [] rule.type = "dailyLimit" -> dailyLimit(rule.params, ctx, txs, t)
      [] rule.type = "monthlyBudget" ->
             monthlyBudget(rule.params, ctx, txs, t)
      [] rule.type = "vendorWhitelist" ->
             vendorWhitelist(rule.params, ctx, txs, t)
      [] rule.type = "categoryLimit" ->
             categoryLimit(rule.params, ctx, txs, t)
      [] OTHER -> FALSE

(***************************************************************************)
(* Safety gates (lib/safety.ts).                                           *)
(***************************************************************************)
isPaymentsPaused == paymentsPaused
isSafeModeEnabled(userId) == safeModeByUser[userId]
hasUserApprovedOnce(userId) == approvedSpendByUser[userId]

\* setSafeModeForUser clearing the approvals of every owner when it enables
setSafeModeClearsEveryone(approvedSpend, userId, enabled) ==
    IF enabled THEN [u \in DOMAIN approvedSpend |-> FALSE]
    ELSE approvedSpend

\* setSafeModeForUser(userId, enabled): the approvedSpendByUser it leaves
setSafeModeApproved(approvedSpend, userId, enabled) ==
    IF enabled THEN [approvedSpend EXCEPT ![userId] = FALSE]
    ELSE approvedSpend

markUserApprovedOnce(approvedSpend, userId) ==
    [approvedSpend EXCEPT ![userId] = TRUE]

resetUserApproval(approvedSpend, userId) ==
    [approvedSpend EXCEPT ![userId] = FALSE]

(***************************************************************************)
(* validatePayment (policy/engine.ts 175-256).  ctx is                     *)
(* [amount, recipient, category, userId, approved]; userId and approved    *)
(* are ctx.metadata.userId and ctx.metadata.approved === true.             *)
(***************************************************************************)
RECURSIVE EvalRules(_, _, _, _)
\* the inner loop over policy.rules: stops at the first failing rule
EvalRules(rules, ctx, txs, t) ==
    IF rules = <<>>
    THEN [passed |-> TRUE, failedRule |-> "none", count |-> 0]
    ELSE IF ~evaluateRule(Head(rules), ctx, txs, t)
    THEN [passed |-> FALSE, failedRule |-> Head(rules).type, count |-> 1]
    ELSE LET rest == EvalRules(Tail(rules), ctx, txs, t)
         IN  [rest EXCEPT !.count = @ + 1]

RECURSIVE PolicyLoopLastDecides(_, _, _, _, _)
\* the outer loop with approved assigned, not and-ed, by each policy
PolicyLoopLastDecides(pols, acc, ctx, txs, t) ==
    IF pols = <<>> THEN acc
    ELSE LET policy == Head(pols)
             r == EvalRules(policy.rules, ctx, txs, t)
         IN  IF ~policy.enabled
             THEN PolicyLoopLastDecides(Tail(pols), acc, ctx, txs, t)
             ELSE PolicyLoopLastDecides(Tail(pols),
                    [approved |-> r.passed,
                     blockedBy |-> IF r.passed THEN acc.blockedBy
                                   ELSE policy.name,
                     results |-> Append(acc.results,
                         [passed |-> r.passed, policyId |-> policy.id,
                          policyName |-> policy.name,
                          failedRule |-> r.failedRule]),
                     evaluated |-> acc.evaluated + r.count],
                    ctx, txs, t)

RECURSIVE PolicyLoop(_, _, _, _, _)
\* the outer loop over policies.values()
PolicyLoop(pols, acc, ctx, txs, t) ==
    IF pols = <<>> THEN acc
    ELSE LET policy == Head(pols)
             r == EvalRules(policy.rules, ctx, txs, t)
         IN  IF ~policy.enabled
             THEN PolicyLoop(Tail(pols), acc, ctx, txs, t)
             ELSE PolicyLoop(Tail(pols),
                    [approved |-> acc.approved /\ r.passed,
                     blockedBy |-> IF r.passed THEN acc.blockedBy
                                   ELSE policy.name,
                     results |-> Append(acc.results,
                         [passed |-> r.passed, policyId |-> policy.id,
                          policyName |-> policy.name,
                          failedRule |-> r.failedRule]),
                     evaluated |-> acc.evaluated + r.count],
                    ctx, txs, t)

\* requiresApproval of validatePayment
requiresApproval(userId) ==
    /\ userId # NoUser
    /\ isSafeModeEnabled(userId)
    /\ ~hasUserApprovedOnce(userId)
\* validatePayment recording the one-time approval whenever the safe-mode
\* gate was passed, also for a payment that a policy rejects
validatePaymentMarksRejected(ctx) ==
    LET gate == requiresApproval(ctx.userId)
        loop == PolicyLoop(policies,
                    [approved |-> TRUE, blockedBy |-> "none",
                     results |-> <<>>, evaluated |-> 0],
                    ctx, transactions, now)
    IN  IF isPaymentsPaused
        THEN [approved |-> FALSE, blockedBy |-> "Kill Switch",
              results |-> <<[passed |-> FALSE, policyId |-> "system",
                             policyName |-> "Kill Switch",
                             failedRule |-> "none"]>>,
              evaluated |-> 0, marked |-> FALSE]
        ELSE IF gate /\ ctx.approved # "true"
        THEN [approved |-> FALSE, blockedBy |-> "Safe Mode",
              results |-> <<[passed |-> FALSE, policyId |-> "system",
                             policyName |-> "Safe Mode",
                             failedRule |-> "none"]>>,
              evaluated |-> 0, marked |-> FALSE]
        ELSE [approved |-> loop.approved, blockedBy |-> loop.blockedBy,
              results |-> loop.results, evaluated |-> loop.evaluated,
              marked |-> gate]

\* validatePayment with the safe-mode gate tested before the kill switch
validatePaymentGateFirst(ctx) ==
    LET gate == requiresApproval(ctx.userId)
        loop == PolicyLoop(policies,
                    [approved |-> TRUE, blockedBy |-> "none",
                     results |-> <<>>, evaluated |-> 0],
                    ctx, transactions, now)
    IN  IF gate /\ ctx.approved # "true"
        THEN [approved |-> FALSE, blockedBy |-> "Safe Mode",
              results |-> <<[passed |-> FALSE, policyId |-> "system",
                             policyName |-> "Safe Mode",
                             failedRule |-> "none"]>>,
              evaluated |-> 0, marked |-> FALSE]
        ELSE IF isPaymentsPaused
        THEN [approved |-> FALSE, blockedBy |-> "Kill Switch",
              results |-> <<[passed |-> FALSE, policyId |-> "system",
                             policyName |-> "Kill Switch",
                             failedRule |-> "none"]>>,
              evaluated |-> 0, marked |-> FALSE]
        ELSE [approved |-> loop.approved, blockedBy |-> loop.blockedBy,
              results |-> loop.results, evaluated |-> loop.evaluated,
              marked |-> loop.approved /\ gate]

\* validatePayment taking any truthy metadata.approved for an approval
validatePaymentTruthyFlag(ctx) ==
    LET gate == requiresApproval(ctx.userId)
        loop == PolicyLoop(policies,
                    [approved |-> TRUE, blockedBy |-> "none",
                     results |-> <<>>, evaluated |-> 0],
                    ctx, transactions, now)
    IN  IF isPaymentsPaused
        THEN [approved |-> FALSE, blockedBy |-> "Kill Switch",
              results |-> <<[passed |-> FALSE, policyId |-> "system",
                             policyName |-> "Kill Switch",
                             failedRule |-> "none"]>>,
              evaluated |-> 0, marked |-> FALSE]
        ELSE IF gate /\ ctx.approved = "absent"
        THEN [approved |-> FALSE, blockedBy |-> "Safe Mode",
              results |-> <<[passed |-> FALSE, policyId |-> "system",
                             policyName |-> "Safe Mode",
                             failedRule |-> "none"]>>,
              evaluated |-> 0, marked |-> FALSE]
        ELSE [approved |-> loop.approved, blockedBy |-> loop.blockedBy,
              results |-> loop.results, evaluated |-> loop.evaluated,
              marked |-> loop.approved /\ gate]

\* the ValidationSummary, with the number of rules evaluated and whether
\* markUserApprovedOnce was called
validatePayment(ctx) ==
    LET gate == requiresApproval(ctx.userId)
        loop == PolicyLoop(policies,
                    [approved |-> TRUE, blockedBy |-> "none",
                     results |-> <<>>, evaluated |-> 0],
                    ctx, transactions, now)
    IN  IF isPaymentsPaused
        THEN [approved |-> FALSE, blockedBy |-> "Kill Switch",
              results |-> <<[passed |-> FALSE, policyId |-> "system",
                             policyName |-> "Kill Switch",
                             failedRule |-> "none"]>>,
              evaluated |-> 0, marked |-> FALSE]
        ELSE IF gate /\ ctx.approved # "true"
        THEN [approved |-> FALSE, blockedBy |-> "Safe Mode",
              results |-> <<[passed |-> FALSE, policyId |-> "system",
                             policyName |-> "Safe Mode",
                             failedRule |-> "none"]>>,
              evaluated |-> 0, marked |-> FALSE]
        ELSE [approved |-> loop.approved, blockedBy |-> loop.blockedBy,
              results |-> loop.results, evaluated |-> loop.evaluated,
              marked |-> loop.approved /\ gate]

\* state.safety.approvedSpendByUser after a validatePayment call that
\* returned v: markUserApprovedOnce runs when approved && requiresApproval
approvedSpendAfter(ctx, v) ==
    IF v.marked THEN markUserApprovedOnce(approvedSpendByUser, ctx.userId)
    ELSE approvedSpendByUser

ValidationEffect(ctx, v) ==
    approvedSpendByUser' = approvedSpendAfter(ctx, v)

(***************************************************************************)
(* Initial state: a freshly started process.  store.balance starts at     *)
(* zero and store.wallet at null (wallet.service.ts 150-160); the safety   *)
(* state starts from DEFAULT_STATE (dataStore.ts 23-32).                   *)
(***************************************************************************)
ZeroBalance == [amount |-> 0, reserved |-> 0, available |-> 0]
NoRequest == [userId |-> NoUser, amount |-> "0"]
NoResult == [status |-> "none", error |-> "none", blockedBy |-> "none",
             txHash |-> "none", reserved |-> FALSE, circle |-> FALSE,
             by |-> "none", txId |-> 0, seq |-> 0]

InitCommon ==
    /\ cachedTokenId = FALSE
    /\ transactions = <<>>
    /\ policies = <<>>
    /\ paymentsPaused = FALSE
    /\ safeModeByUser = [u \in Users |-> FALSE]
    /\ approvedSpendByUser = [u \in Users |-> FALSE]
    /\ now = 0
    /\ pc = [p \in Procs |-> "idle"]
    /\ req = [p \in Procs |-> NoRequest]
    /\ txOf = [p \in Procs |-> 0]
    /\ returned = NoResult
    /\ ledgerLog = <<>>

Init ==
    /\ InitCommon
    /\ walletIdConfigured \in BOOLEAN
    /\ wallet = FALSE
    /\ balance = ZeroBalance

(***************************************************************************)
(* Inputs.                                                                 *)
(***************************************************************************)
ProviderAmounts == {"0.01", "0.02"}

\* metadata.approved of a payment context: the boolean true, a value that is
\* truthy but not the boolean true ("1"), or no value
ApprovedFlags == {"true", "1", "absent"}

Rule(type, params) == [params |-> params, type |-> type]

(***************************************************************************)
(* Wallet and balance (wallet.service.ts 171-269).                         *)
(***************************************************************************)
\* refreshBalance: the balance after Circle reported `amount`
\* refreshBalance taking the provider's total as available and dropping the
\* reservations
refreshBalanceDropsReserved(bal, amount) ==
    [amount |-> parseAmount(amount).n,
     reserved |-> 0,
     available |-> parseAmount(amount).n]

refreshBalance(bal, amount) ==
    [amount |-> parseAmount(amount).n,
     reserved |-> bal.reserved,
     available |-> toFixed2(Max(0, parseAmount(amount).n - bal.reserved), 0)]

MockBalance == [amount |-> 100000, reserved |-> 0, available |-> 100000]

\* initializeWallet: circle = "live" when Circle returned the wallet (the
\* balance is then refreshed), "fail" when the lookup failed or no wallet id
\* is configured (mock wallet with a balance of 100.00)
InitializeWallet(circle, amount) ==
    /\ ~wallet
    /\ circle = "live" => walletIdConfigured
    /\ wallet' = TRUE
    /\ balance' = IF circle = "live" THEN refreshBalance(balance, amount)
                  ELSE MockBalance
    /\ UNCHANGED <<walletIdConfigured, cachedTokenId, transactions, policies,
                   paymentsPaused, safeModeByUser,
                   approvedSpendByUser, now, pc, req, txOf, returned,
                   ledgerLog>>

\* getBalance(force) when it refreshes (forced or stale), and the refresh
\* that transferUsdc schedules with setTimeout after a successful transfer
GetBalance(amount) ==
    /\ walletIdConfigured
    /\ balance' = refreshBalance(balance, amount)
    /\ balance' # balance
    /\ UNCHANGED <<walletIdConfigured, wallet, cachedTokenId, transactions,
                   policies, paymentsPaused, safeModeByUser,
                   approvedSpendByUser, now, pc, req, txOf, returned,
                   ledgerLog>>

(***************************************************************************)
(* POST /treasury/safety (api/routes/treasury.ts).  "absent" stands for a  *)
(* body field that is not a boolean.                                       *)
(***************************************************************************)
SafetyBodies ==
    [paymentsPaused : {"true", "false", "absent"},
     safeMode : {"true", "false", "absent"},
     resetApproval : BOOLEAN]

SafetyUpdate(userId, body) ==
    /\ paymentsPaused' = IF body.paymentsPaused # "absent"
                         THEN body.paymentsPaused = "true"
                         ELSE paymentsPaused
    /\ IF userId # NoUser
       THEN LET afterSafeMode ==
                    IF body.safeMode # "absent"
                    THEN setSafeModeApproved(approvedSpendByUser, userId,
                                             body.safeMode = "true")
                    ELSE approvedSpendByUser
            IN  /\ safeModeByUser' =
                       IF body.safeMode # "absent"
                       THEN [safeModeByUser EXCEPT
                                ![userId] = body.safeMode = "true"]
                       ELSE safeModeByUser
                /\ approvedSpendByUser' =
                       IF body.resetApproval
                       THEN resetUserApproval(afterSafeMode, userId)
                       ELSE afterSafeMode
       ELSE UNCHANGED <<safeModeByUser, approvedSpendByUser>>
    /\ <<paymentsPaused, safeModeByUser, approvedSpendByUser>>' #
           <<paymentsPaused, safeModeByUser, approvedSpendByUser>>
    /\ UNCHANGED <<walletIdConfigured, wallet, balance, cachedTokenId,
                   transactions, policies, now, pc, req, txOf,
                   returned, ledgerLog>>

(***************************************************************************)
(* Policy store (policy/engine.ts 129-173).                                *)
(***************************************************************************)
PolicyIds == {policies[i].id : i \in 1..Len(policies)}

\* createPolicy(data): a new enabled policy at the end of the map; the
\* engine holds at most max policies
CreatePolicyWithin(max, name, rules) ==
    /\ Len(policies) < max
    /\ LET id == CHOOSE i \in 1..max : i \notin PolicyIds
       IN  policies' = Append(policies,
               [id |-> id, name |-> name, enabled |-> TRUE, rules |-> rules])
    /\ UNCHANGED <<walletIdConfigured, wallet, balance, cachedTokenId,
                   transactions, paymentsPaused, safeModeByUser,
                   approvedSpendByUser, now, pc, req, txOf, returned,
                   ledgerLog>>

CreatePolicy(name, rules) == CreatePolicyWithin(MaxPolicies, name, rules)

\* updatePolicy(id, {enabled}) and updatePolicy(id, {rules})
UpdatePolicy(id, enabled, rules) ==
    /\ id \in PolicyIds
    /\ policies' = [i \in 1..Len(policies) |->
           IF policies[i].id = id
           THEN [policies[i] EXCEPT !.enabled = enabled, !.rules = rules]
           ELSE policies[i]]
    /\ policies' # policies
    /\ UNCHANGED <<walletIdConfigured, wallet, balance, cachedTokenId,
                   transactions, paymentsPaused, safeModeByUser,
                   approvedSpendByUser, now, pc, req, txOf, returned,
                   ledgerLog>>

DeletePolicy(id) ==
    /\ id \in PolicyIds
    /\ policies' = SelectSeq(policies, LAMBDA pol : pol.id # id)
    /\ UNCHANGED <<walletIdConfigured, wallet, balance, cachedTokenId,
                   transactions, paymentsPaused, safeModeByUser,
                   approvedSpendByUser, now, pc, req, txOf, returned,
                   ledgerLog>>

\* deleteUserData(userId) (dataStore.ts 465-498): the owner's safety entries
\* are deleted, so both read as false; the engine's policy map and the
\* wallet's transaction list are other objects and stay as they are
DeleteUserData(userId) ==
    /\ safeModeByUser' = [safeModeByUser EXCEPT ![userId] = FALSE]
    /\ approvedSpendByUser' = [approvedSpendByUser EXCEPT ![userId] = FALSE]
    /\ <<safeModeByUser, approvedSpendByUser>>' #
           <<safeModeByUser, approvedSpendByUser>>
    /\ UNCHANGED <<walletIdConfigured, wallet, balance, cachedTokenId,
                   transactions, policies, paymentsPaused, now, pc, req, txOf,
                   returned, ledgerLog>>

\* POST /policy/validate (api/routes/policy.ts 50-59)
PolicyValidate(request) ==
    /\ ValidationEffect(request, validatePayment(request))
    /\ approvedSpendByUser' # approvedSpendByUser
    /\ UNCHANGED <<walletIdConfigured, wallet, balance, cachedTokenId,
                   transactions, policies, paymentsPaused, safeModeByUser,
                   now, pc, req, txOf, returned, ledgerLog>>

(***************************************************************************)
(* executePayment (payments/executor.ts 14-139) with transferUsdc          *)
(* (wallet.service.ts 340-410).  Of a returned result, the fields reserved *)
(* (the call reserved funds), circle (it sent a request to Circle), by,    *)
(* txId and seq (which handler returned it, the transaction it recorded,   *)
(* and a bit that flips at every return) are bookkeeping.                  *)
(***************************************************************************)
Failed(error, blockedBy, reserved, circle, txId) ==
    [status |-> "failed", error |-> error, blockedBy |-> blockedBy,
     txHash |-> "none", reserved |-> reserved, circle |-> circle,
     txId |-> txId]

Completed(txHash, txId) ==
    [status |-> "completed", error |-> "none", blockedBy |-> "none",
     txHash |-> txHash, reserved |-> TRUE, circle |-> TRUE, txId |-> txId]

\* executePayment returns res to the caller of handler p
Return(p, res) ==
    /\ returned' = [status |-> res.status, error |-> res.error,
                    blockedBy |-> res.blockedBy, txHash |-> res.txHash,
                    reserved |-> res.reserved, circle |-> res.circle,
                    by |-> p, txId |-> res.txId, seq |-> 1 - returned.seq]
    /\ pc' = [pc EXCEPT ![p] = "idle"]
    /\ req' = [req EXCEPT ![p] = NoRequest]
    /\ txOf' = [txOf EXCEPT ![p] = 0]

\* the failure branch of the try block, lines 96-105: release, mark failed
TransferFailed(p, bal, txs, amount, txId, error, circle) ==
    /\ balance' = releaseFunds(bal, amount)
    /\ transactions' = updateTransactionStatus(txs, txId, "failed", "", now)
    /\ Return(p, Failed(error, "none", TRUE, circle, txId))

\* From the call to the first network await: lines 14-94 and the start of
\* transferUsdc.
ExecutePayment(p, request) ==
    LET v == validatePayment(request)
        r == reserveFunds(balance, request.amount)
        id == Len(transactions) + 1
        recorded == recordTransaction(transactions, id,
                        [userId |-> request.userId, amount |-> request.amount,
                         status |-> "pending", category |-> request.category,
                         txHash |-> ""], now)
    IN
    /\ pc[p] = "idle"
    /\ IF request.userId = NoUser
       THEN /\ Return(p, Failed("User ID required to execute payment",
                                "Missing User", FALSE, FALSE, 0))
            /\ UNCHANGED <<balance, transactions, approvedSpendByUser>>
       ELSE
       /\ ValidationEffect(request, v)
       /\ IF ~v.approved
          THEN /\ Return(p, Failed("Blocked by policy", v.blockedBy,
                                   FALSE, FALSE, 0))
               /\ UNCHANGED <<balance, transactions>>
          ELSE IF ~wallet
          THEN /\ Return(p, Failed("Wallet not initialized", "none",
                                   FALSE, FALSE, 0))
               /\ UNCHANGED <<balance, transactions>>
          ELSE IF ~r.ret
          THEN /\ Return(p, Failed("Insufficient funds", "none",
                                   FALSE, FALSE, 0))
               /\ balance' = r.balance
               /\ UNCHANGED transactions
          ELSE
          /\ Len(transactions) < MaxTx
          /\ IF ~walletIdConfigured
             THEN TransferFailed(p, r.balance, recorded, request.amount, id,
                                 "Wallet not configured", FALSE)
             ELSE /\ balance' = r.balance
                  /\ transactions' = recorded
                  /\ pc' = [pc EXCEPT ![p] =
                         IF cachedTokenId THEN "awaitTransfer"
                         ELSE "awaitToken"]
                  /\ req' = [req EXCEPT ![p] =
                         [userId |-> request.userId,
                          amount |-> request.amount]]
                  /\ txOf' = [txOf EXCEPT ![p] = id]
                  /\ UNCHANGED returned
    /\ UNCHANGED <<walletIdConfigured, wallet, cachedTokenId, policies,
                   paymentsPaused, safeModeByUser, now, ledgerLog>>

\* getUsdcTokenId answers (wallet.service.ts 317-338, 349-352): with the
\* token id createTransaction is sent, without it the transfer fails
TokenResponse(p, found) ==
    /\ pc[p] = "awaitToken"
    /\ IF found
       THEN /\ cachedTokenId' = TRUE
            /\ pc' = [pc EXCEPT ![p] = "awaitTransfer"]
            /\ UNCHANGED <<balance, transactions, returned, req, txOf>>
       ELSE /\ TransferFailed(p, balance, transactions, req[p].amount,
                   txOf[p], "Could not find USDC token in wallet", TRUE)
            /\ UNCHANGED cachedTokenId
    /\ UNCHANGED <<walletIdConfigured, wallet, policies, paymentsPaused,
                   safeModeByUser, approvedSpendByUser, now, ledgerLog>>

\* createTransaction answers (wallet.service.ts 365-409) and executePayment
\* runs to its return (executor.ts 96-126).  answer is "ok" (a transaction
\* id came back), "noId" (no id in the response) or "error" (the SDK threw)
TransferResponse(p, answer) ==
    /\ pc[p] = "awaitTransfer"
    /\ IF answer = "ok"
       THEN /\ transactions' = updateTransactionStatus(transactions, txOf[p],
                                   "confirmed", "0xhash", now)
            /\ balance' = releaseFunds(balance, req[p].amount)
            /\ Return(p, Completed("0xhash", txOf[p]))
       ELSE TransferFailed(p, balance, transactions, req[p].amount, txOf[p],
                IF answer = "noId" THEN "No transaction returned from Circle"
                ELSE "Circle error", TRUE)
    /\ UNCHANGED <<walletIdConfigured, wallet, cachedTokenId, policies,
                   paymentsPaused, safeModeByUser, approvedSpendByUser, now,
                   ledgerLog>>

(***************************************************************************)
(* Spec: two concurrent payment handlers against the wallet, the ledger    *)
(* and the kill switch.                                                    *)
(***************************************************************************)
ExecRequests ==
    [userId : {"alice", NoUser}, amount : {"0", "0.005", "0.01"},
     recipient : {"0xabc"}, category : {NoCategory}, approved : {"absent"}]

KillSwitchBodies ==
    [paymentsPaused : {"true", "false"}, safeMode : {"absent"},
     resetApproval : {FALSE}]

Next ==
    \/ \E circle \in {"live", "fail"}, amount \in ProviderAmounts :
           InitializeWallet(circle, amount)
    \/ \E amount \in ProviderAmounts : GetBalance(amount)
    \/ \E body \in KillSwitchBodies : SafetyUpdate(NoUser, body)
    \/ \E p \in Procs, request \in ExecRequests : ExecutePayment(p, request)
    \/ \E p \in Procs, found \in BOOLEAN : TokenResponse(p, found)
    \/ \E p \in Procs, answer \in {"ok", "noId", "error"} :
           TransferResponse(p, answer)

Spec == Init /\ [][Next]_vars

\* the requests the server answers without calling Circle
NextNoAnswer ==
    \/ \E body \in KillSwitchBodies : SafetyUpdate(NoUser, body)
    \/ \E p \in Procs, request \in ExecRequests : ExecutePayment(p, request)

\* FairSpec: the server goes on serving such requests; nothing is assumed
\* about Circle answering a getWalletTokenBalance or createTransaction call,
\* and the code arms no timer on either call.
FairSpec == Init /\ [][Next]_vars /\ WF_vars(NextNoAnswer)

(***************************************************************************)
(* Properties of executePayment, under Spec and FairSpec.                  *)
(***************************************************************************)
AllIdle == \A p \in Procs : pc[p] = "idle"

\* the status of transaction id in the log txs
StatusOf(txs, id) ==
    LET i == CHOOSE i \in 1..Len(txs) : txs[i].id = id
    IN  txs[i].status

RECURSIVE HeldBy(_, _, _)
\* mills the calls in flight among the handlers S reserved and still hold
HeldBy(S, pcs, reqs) ==
    IF S = {} THEN 0
    ELSE LET p == CHOOSE p \in S : TRUE
         IN  (IF pcs[p] = "idle" THEN 0 ELSE parseAmount(reqs[p].amount).n)
             + HeldBy(S \ {p}, pcs, reqs)

\* the errors transferUsdc reports
TransferErrors ==
    {"Wallet not configured", "Could not find USDC token in wallet",
     "No transaction returned from Circle", "Circle error"}

\* the errors executePayment returns before it has reserved funds
PreReservationErrors ==
    {"User ID required to execute payment", "Blocked by policy",
     "Wallet not initialized", "Insufficient funds"}

\* C1: once every executePayment call that reserved funds has returned,
\* nothing is reserved any more (reserved is back to the value it has
\* without these payments, zero) and every recorded transaction is Confirmed
\* or Failed.
C1_ReservationReleased ==
    AllIdle =>
        /\ balance.reserved = 0
        /\ \A i \in 1..Len(transactions) :
               transactions[i].status \in {"confirmed", "failed"}

\* C4: when executePayment returns after a failed transfer (funds were
\* reserved and a transaction recorded), the reservation is released
\* (reserved holds only what the calls still in flight reserved), the
\* transaction is Failed, and the result is failed with the transfer's error.
C4_TransferFailureReleases ==
    [][(returned' # returned /\ returned'.status = "failed"
            /\ returned'.txId # 0) =>
           /\ balance'.reserved = HeldBy(Procs, pc', req')
           /\ StatusOf(transactions', returned'.txId) = "failed"
           /\ returned'.error \in TransferErrors]_vars

\* C5: when executePayment returns completed, the transaction is Confirmed
\* and carries the proof the result returns, the reservation is released
\* (reserved holds only what the calls still in flight reserved) and the
\* total is the one before.
C5_SuccessConfirmsAndReleases ==
    [][(returned' # returned /\ returned'.status = "completed") =>
           /\ StatusOf(transactions', returned'.txId) = "confirmed"
           /\ returned'.txHash = "0xhash"
           /\ \E i \in 1..Len(transactions') :
                  /\ transactions'[i].id = returned'.txId
                  /\ transactions'[i].txHash = returned'.txHash
           /\ balance'.reserved = HeldBy(Procs, pc', req')
           /\ balance'.amount = balance.amount]_vars

\* C6: an executePayment call that fails before a successful reservation
\* (owner missing, rejected by the policy engine, no wallet, reserveFunds
\* false) returns failed, sends nothing to Circle (the handler is not left
\* waiting for an answer), leaves the balance as it was and records no
\* transaction.
C6_EarlyFailureChangesNothing ==
    [][(returned' # returned /\ returned'.error \in PreReservationErrors) =>
           /\ returned'.status = "failed"
           /\ ~returned'.circle
           /\ pc' = pc
           /\ balance' = balance
           /\ transactions' = transactions]_vars

\* a call failed for lack of funds while the log already holds a transaction
C6_Witness ==
    /\ returned.error = "Insufficient funds"
    /\ returned.status = "failed"
    /\ wallet
    /\ transactions # <<>>

\* C7: every executePayment call that has reserved funds and waits for
\* Circle eventually returns, whether or not Circle ever answers.
C7_EventuallyReturns ==
    \A p \in Procs : (pc[p] \in {"awaitToken", "awaitTransfer"}) ~> (pc[p] = "idle")

(***************************************************************************)
(* PolicySpec: the policy store, the safety controls and the clock around  *)
(* one payment handler, starting from an initialised wallet.               *)
(***************************************************************************)
PolicyRequests ==
    [userId : Users \cup {NoUser}, amount : {"0.01"},
     recipient : Recipients, category : {NoCategory},
     approved : ApprovedFlags]

PaidRequests ==
    [userId : Users, amount : {"0.01"}, recipient : Recipients,
     category : {NoCategory}, approved : ApprovedFlags]

RuleLists ==
    {<<Rule("maxPerTransaction", [max |-> "0.01"])>>,
     <<Rule("vendorWhitelist", [addresses |-> <<"0xABC">>]),
       Rule("dailyLimit", [limit |-> "0.01"])>>}

PolicyNames == {"P"}

InitPolicy ==
    /\ cachedTokenId = TRUE
    /\ transactions = <<>>
    /\ policies = <<>>
    /\ paymentsPaused = FALSE
    /\ safeModeByUser = [u \in Users |-> FALSE]
    /\ approvedSpendByUser = [u \in Users |-> FALSE]
    /\ now = 0
    /\ pc = [p \in Procs |-> "idle"]
    /\ req = [p \in Procs |-> NoRequest]
    /\ txOf = [p \in Procs |-> 0]
    /\ returned = NoResult
    /\ ledgerLog = <<>>
    /\ walletIdConfigured = TRUE
    /\ wallet = TRUE
    /\ balance = refreshBalance(ZeroBalance, "0.03")

NextPolicy ==
    \/ \E userId \in Users \cup {NoUser}, body \in SafetyBodies :
           SafetyUpdate(userId, body)
    \/ \E name \in PolicyNames, rules \in RuleLists : CreatePolicy(name, rules)
    \/ \E id \in 1..MaxPolicies, enabled \in BOOLEAN, rules \in RuleLists :
           UpdatePolicy(id, enabled, rules)
    \/ \E id \in 1..MaxPolicies : DeletePolicy(id)
    \/ \E request \in PolicyRequests : PolicyValidate(request)
    \/ \E userId \in Users : DeleteUserData(userId)
    \/ \E request \in PaidRequests :
           Len(transactions) < MaxPaid /\ ExecutePayment("h1", request)
    \/ \E answer \in {"ok", "error"} : TransferResponse("h1", answer)

PolicySpec == InitPolicy /\ [][NextPolicy]_vars

(***************************************************************************)
(* Properties of validatePayment and the safety gates, under PolicySpec.   *)
(***************************************************************************)
\* C8: while paymentsPaused is true, validatePayment answers every payment
\* context with approved = false and blockedBy "Kill Switch", evaluates no
\* rule and records no approval, whatever the policies, the owner's safe
\* mode and the approval flag.
C8_KillSwitchBlocksAll ==
    paymentsPaused =>
        \A ctx \in PolicyRequests :
            LET v == validatePayment(ctx)
            IN  /\ ~v.approved
                /\ v.blockedBy = "Kill Switch"
                /\ v.evaluated = 0
                /\ ~v.marked

\* a payment was refused by the kill switch with no policy configured
C8_Witness ==
    /\ paymentsPaused
    /\ policies = <<>>
    /\ returned.status = "failed"
    /\ returned.blockedBy = "Kill Switch"

\* C9: with the kill switch off, for an owner in safe mode without recorded
\* approval, validatePayment answers a context whose approval flag is not
\* the boolean true with approved = false and blockedBy "Safe Mode",
\* evaluates no rule and leaves the safety state as it was.
C9_SafeModeBlocksUnapproved ==
    \A ctx \in PolicyRequests :
        (/\ ~paymentsPaused
         /\ ctx.userId \in Users
         /\ safeModeByUser[ctx.userId]
         /\ ~approvedSpendByUser[ctx.userId]
         /\ ctx.approved # "true") =>
            LET v == validatePayment(ctx)
            IN  /\ ~v.approved
                /\ v.blockedBy = "Safe Mode"
                /\ v.evaluated = 0
                /\ ~v.marked
                /\ approvedSpendAfter(ctx, v) = approvedSpendByUser

\* a payment was refused by safe mode while an enabled policy exists
C9_Witness ==
    /\ ~paymentsPaused
    /\ returned.status = "failed"
    /\ returned.blockedBy = "Safe Mode"
    /\ \E u \in Users : safeModeByUser[u] /\ ~approvedSpendByUser[u]
    /\ \E i \in 1..Len(policies) : policies[i].enabled

\* C10 as stated: once an owner's one-time approval is recorded, no step
\* whatsoever brings back a state in which validatePayment blocks that owner
\* by "Safe Mode".
C10_ApprovalPermanent ==
    [][\A u \in Users :
           approvedSpendByUser[u] =>
               \A ctx \in PolicyRequests :
                   ctx.userId = u =>
                       validatePayment(ctx)'.blockedBy # "Safe Mode"]_vars

\* POST /treasury/safety for owner u with safeMode true or resetApproval set
ClearsApproval(u) ==
    \E body \in SafetyBodies :
        /\ body.safeMode = "true" \/ body.resetApproval
        /\ SafetyUpdate(u, body)

\* C10 amended: while an owner's one-time approval is recorded,
\* validatePayment never blocks that owner by "Safe Mode", with or without
\* the flag; and the approval stays recorded across every step except a
\* safety update for that owner that enables safe mode or resets the
\* approval, and the deletion of the owner's data.
C10_ApprovalKeptUntilCleared ==
    /\ [](\A ctx \in PolicyRequests :
              (ctx.userId \in Users /\ approvedSpendByUser[ctx.userId]) =>
                  validatePayment(ctx).blockedBy # "Safe Mode")
    /\ [][\A u \in Users :
              approvedSpendByUser[u] =>
                  \/ approvedSpendByUser'[u]
                  \/ ClearsApproval(u)
                  \/ DeleteUserData(u)]_vars

\* alice, in safe mode with her approval recorded, had a payment confirmed
C10_Witness ==
    /\ safeModeByUser["alice"]
    /\ approvedSpendByUser["alice"]
    /\ returned.status = "completed"
    /\ \E i \in 1..Len(transactions) :
           /\ transactions[i].userId = "alice"
           /\ transactions[i].status = "confirmed"

(***************************************************************************)
(* RuleSpec: the policy store under requests that create, change, enable,  *)
(* disable and delete policies, and payments validated against it.  Every  *)
(* policy request of RuleSpec is sent by PolicyOwner (header x-user-id);   *)
(* the policy routes do not read the header and createPolicy stores no     *)
(* owner.  No wallet is initialised, so an approved payment returns        *)
(* "Wallet not initialized" and the transaction list stays empty.          *)
(***************************************************************************)
MaxRulePolicies == 2

PolicyOwner == "bob"

RuleNames == {"P", "Q"}

KnownRuleTypes == {"maxPerTransaction", "dailyLimit", "monthlyBudget",
                   "vendorWhitelist", "categoryLimit"}

RuleMenu ==
    {<<Rule("maxPerTransaction", [max |-> "0.1"])>>,
     <<Rule("vendorWhitelist", [addresses |-> <<"0xABC">>]),
       Rule("maxPerTransaction", [max |-> "0.2"])>>,
     <<Rule("timeWindow", [hours |-> "9-17"])>>}

RuleRequests ==
    [userId : Users, amount : {"0.1", "0.2"}, recipient : Recipients,
     category : {NoCategory}, approved : {"absent"}]

InitRule ==
    /\ InitCommon
    /\ walletIdConfigured = FALSE
    /\ wallet = FALSE
    /\ balance = ZeroBalance

NextRule ==
    \/ \E name \in RuleNames, rules \in RuleMenu :
           CreatePolicyWithin(MaxRulePolicies, name, rules)
    \/ \E id \in PolicyIds, enabled \in BOOLEAN, rules \in RuleMenu :
           UpdatePolicy(id, enabled, rules)
    \/ \E id \in PolicyIds : DeletePolicy(id)
    \/ \E request \in RuleRequests : ExecutePayment("h1", request)
    \/ \E body \in KillSwitchBodies : SafetyUpdate(NoUser, body)

RuleSpec == InitRule /\ [][NextRule]_vars

EnabledPolicies == SelectSeq(policies, LAMBDA pol : pol.enabled)

AllRulesPass(pol, ctx) ==
    \A j \in 1..Len(pol.rules) :
        evaluateRule(pol.rules[j], ctx, transactions, now)

GatesPassed(ctx) ==
    /\ ~isPaymentsPaused
    /\ ~(requiresApproval(ctx.userId) /\ ctx.approved # "true")

\* C11: once the kill switch is off and the safe-mode gate is passed, a
\* payment is approved exactly when every rule of every enabled policy
\* passes; a disabled policy is not evaluated and adds no result (the
\* results are those of the enabled policies, in order), and with no
\* enabled policy the payment is approved.
C11_ApprovedIffAllEnabledPass ==
    \A ctx \in RuleRequests :
        GatesPassed(ctx) =>
            LET v == validatePayment(ctx)
                en == EnabledPolicies
            IN  /\ v.approved <=>
                       \A i \in 1..Len(en) : AllRulesPass(en[i], ctx)
                /\ Len(v.results) = Len(en)
                /\ \A i \in 1..Len(en) :
                       /\ v.results[i].policyId = en[i].id
                       /\ v.results[i].passed <=> AllRulesPass(en[i], ctx)
                /\ en = <<>> => v.approved /\ v.evaluated = 0

\* an approved payment returned while a disabled policy that its context
\* fails sits beside an enabled policy that it passes
C11_Witness ==
    /\ returned.error = "Wallet not initialized"
    /\ \E i, k \in 1..Len(policies) :
           /\ policies[i].enabled
           /\ ~policies[k].enabled
           /\ \E ctx \in RuleRequests :
                  /\ validatePayment(ctx).approved
                  /\ ~AllRulesPass(policies[k], ctx)

\* C12: validatePayment for an owner evaluates only that owner's enabled
\* policies, and no policy request of another owner changes its result.  In
\* RuleSpec every policy is created, changed and deleted by PolicyOwner, so
\* a payment of any other owner that passes the gates is approved with an
\* empty result list whatever policies PolicyOwner holds.
C12_OnlyOwnPoliciesEvaluated ==
    \A ctx \in RuleRequests :
        (ctx.userId # PolicyOwner /\ GatesPassed(ctx)) =>
            /\ validatePayment(ctx).approved
            /\ validatePayment(ctx).results = <<>>

\* the enabled policies that ctx fails, in evaluation order
FailingPolicies(ctx) ==
    SelectSeq(EnabledPolicies, LAMBDA pol : ~AllRulesPass(pol, ctx))

\* C14: when more than one enabled policy fails, blockedBy is the name of
\* the first failing policy in evaluation order, and results still holds
\* one entry for every enabled policy.
C14_BlockedByFirstFailing ==
    \A ctx \in RuleRequests :
        (GatesPassed(ctx) /\ FailingPolicies(ctx) # <<>>) =>
            /\ validatePayment(ctx).blockedBy = Head(FailingPolicies(ctx)).name
            /\ Len(validatePayment(ctx).results) = Len(EnabledPolicies)

MaxDay == 2

SpendRequests ==
    [userId : Users, amount : {"0.1", "0.2"}, recipient : {"0xabc"},
     category : {"api"}, approved : {"absent"}]

SpendLimit == "0.3"

\* the rules of the policy "Daily"
DailyRules == <<Rule("dailyLimit", [limit |-> SpendLimit])>>

InitSpend ==
    /\ cachedTokenId = TRUE
    /\ transactions = <<>>
    /\ policies = <<>>
    /\ paymentsPaused = FALSE
    /\ safeModeByUser = [u \in Users |-> FALSE]
    /\ approvedSpendByUser = [u \in Users |-> FALSE]
    /\ now = 0
    /\ pc = [p \in Procs |-> "idle"]
    /\ req = [p \in Procs |-> NoRequest]
    /\ txOf = [p \in Procs |-> 0]
    /\ returned = NoResult
    /\ ledgerLog = <<>>
    /\ walletIdConfigured = TRUE
    /\ wallet = TRUE
    /\ balance = refreshBalance(ZeroBalance, "1.00")

\* a calendar day passes
NextDay ==
    /\ now < MaxDay
    /\ now' = now + 1
    /\ UNCHANGED <<walletIdConfigured, wallet, balance, cachedTokenId,
                   transactions, policies, paymentsPaused, safeModeByUser,
                   approvedSpendByUser, pc, req, txOf, returned, ledgerLog>>

NextSpend ==
    \/ \E name \in {"Daily"} : CreatePolicy(name, DailyRules)
    \/ \E request \in SpendRequests : ExecutePayment("h1", request)
    \/ \E answer \in {"ok", "error"} : TransferResponse("h1", answer)
    \/ NextDay

SpendSpec == InitSpend /\ [][NextSpend]_vars

\* the transactions of one owner
OwnTransactions(userId) ==
    SelectSeq(transactions, LAMBDA tx : tx.userId = userId)

\* C13: the spend summed by dailyLimit, monthlyBudget and categoryLimit for
\* a payment of an owner counts only that owner's confirmed transactions:
\* each of the three rules decides as it would on the owner's own
\* transactions alone.
C13_SpendIsPerOwner ==
    \A ctx \in SpendRequests :
        LET own == OwnTransactions(ctx.userId)
        IN  /\ dailyLimit([limit |-> SpendLimit], ctx, transactions, now) <=>
                   dailyLimit([limit |-> SpendLimit], ctx, own, now)
            /\ monthlyBudget([budget |-> SpendLimit], ctx, transactions,
                             now) <=>
                   monthlyBudget([budget |-> SpendLimit], ctx, own, now)
            /\ categoryLimit([limits |-> ("api" :> SpendLimit)], ctx,
                             transactions, now) <=>
                   categoryLimit([limits |-> ("api" :> SpendLimit)], ctx,
                                 own, now)

\* the sum of amounts in mills, as a decimal number
DecimalSum(txs) ==
    LET partial[i \in 0..Len(txs)] ==
            IF i = 0 THEN 0
            ELSE partial[i - 1] + parseAmount(txs[i].amount).n
    IN  partial[Len(txs)]

\* the confirmed spend of the current day
DaySpend ==
    DecimalSum(SelectSeq(transactions, LAMBDA tx :
        tx.status = "confirmed" /\ effectiveDate(tx) >= dayStart(now)))

\* C15: dailyLimit fails exactly when the day's confirmed spend plus the
\* requested amount exceeds the limit; a payment that brings the total to
\* exactly the limit passes; pending and failed transactions do not count.
C15_DailyLimitBoundary ==
    \A ctx \in SpendRequests :
        dailyLimit([limit |-> SpendLimit], ctx, transactions, now) <=>
            DaySpend + parseAmount(ctx.amount).n <=
                parseAmount(SpendLimit).n

(***************************************************************************)
(* x402Fetch (payments/x402-client.ts, the version that pays with          *)
(* transferUsdc).  A call is cut at its network awaits: the first request, *)
(* the token lookup and createTransaction of transferUsdc, the retried     *)
(* request.  Of a returned result, the fields fetches (requests sent to    *)
(* the resource), validated (validatePayment was called), circle (a        *)
(* request was sent to Circle), by and seq are bookkeeping; data is        *)
(* "body" for the body of a response and "pending" for the message         *)
(* 'Payment made but content access pending confirmation'.                 *)
(***************************************************************************)
Hostname == "api.example.com"

\* the first response: its status, the x-payment-required header ("none"
\* when absent, "garbage" when it is not base64 of JSON, "json" otherwise)
\* and the decoded amount and recipient
X402Responses ==
    [status : {"200", "500", "throw"}, header : {"none"}, amount : {"0"},
     recipient : {""}]
    \cup [status : {"402"}, header : {"none", "garbage"}, amount : {"0"},
          recipient : {""}]
    \cup [status : {"402"}, header : {"json"}, amount : {"0", "0.01", "0.02"},
          recipient : {"", "0xabc"}]

X402Result(success, error, policyBlocked, paymentMade, txHash, data) ==
    [status |-> "x402", success |-> success, error |-> error,
     policyBlocked |-> policyBlocked, paymentMade |-> paymentMade,
     txHash |-> txHash, data |-> data]

X402Failure(error) == X402Result(FALSE, error, FALSE, FALSE, "none", "none")

\* lines 44-71: the result returned on the first response, or "challenge"
\* when payment requirements were decoded; a rejected fetch is caught at
\* lines 178-181
parseChallenge(resp) ==
    IF resp.status = "throw" THEN X402Failure("exception")
    ELSE IF resp.status # "402"
    THEN X402Result(TRUE, "none", FALSE, FALSE, "none", "body")
    ELSE IF resp.header = "none"
    THEN X402Failure("402 returned but no payment requirements")
    ELSE IF resp.header = "garbage"
    THEN X402Failure("Failed to parse payment requirements")
    ELSE [status |-> "challenge"]

\* lines 81-87: the context handed to validatePayment
x402Context(resp, userId) ==
    [userId |-> userId, amount |-> resp.amount,
     recipient |-> IF resp.recipient = "" THEN Hostname ELSE resp.recipient,
     category |-> "x402-api", approved |-> "absent"]

\* lines 89-98 with the rejection logged and the payment carried on
policyBlockIgnored(policyCheck) == [status |-> "pay"]

\* lines 89-98: the result of a rejected payment, or "pay"
policyBlock(policyCheck) ==
    IF ~policyCheck.approved
    THEN X402Result(FALSE, "Payment blocked by policy", TRUE, FALSE, "none",
                    "none")
    ELSE [status |-> "pay"]

\* lines 152-177 with a non-OK retried response returned as a failure
paidResultStrict(status) ==
    IF status # "200"
    THEN X402Failure("Payment failed")
    ELSE X402Result(TRUE, "none", FALSE, TRUE, "0xhash", "body")

\* lines 152-177: the result on the response to the retried request
paidResult(status) ==
    IF status # "200"
    THEN X402Result(TRUE, "none", FALSE, TRUE, "0xhash", "pending")
    ELSE X402Result(TRUE, "none", FALSE, TRUE, "0xhash", "body")

\* x402Fetch returns res to the caller of handler p
X402Return(p, res, fetches, validated, circle) ==
    /\ returned' = [status |-> res.status, success |-> res.success,
                    error |-> res.error, policyBlocked |-> res.policyBlocked,
                    paymentMade |-> res.paymentMade, txHash |-> res.txHash,
                    data |-> res.data, fetches |-> fetches,
                    validated |-> validated, circle |-> circle, by |-> p,
                    seq |-> 1 - returned.seq]
    /\ pc' = [pc EXCEPT ![p] = "idle"]
    /\ req' = [req EXCEPT ![p] = NoRequest]

\* lines 37-44: from the call to the first request
X402Fetch(p, userId) ==
    /\ pc[p] = "idle"
    /\ IF ~wallet
       THEN X402Return(p, X402Failure("Wallet not initialized"), 0, FALSE,
                       FALSE)
       ELSE /\ pc' = [pc EXCEPT ![p] = "x402Initial"]
            /\ req' = [req EXCEPT ![p] = [userId |-> userId, amount |-> "0"]]
            /\ UNCHANGED returned
    /\ UNCHANGED <<walletIdConfigured, wallet, balance, cachedTokenId,
                   transactions, policies, paymentsPaused, safeModeByUser,
                   approvedSpendByUser, now, txOf, ledgerLog>>

\* lines 46-107 and the start of transferUsdc: the first response arrives
X402InitialResponse(p, resp) ==
    LET parsed == parseChallenge(resp)
        ctx == x402Context(resp, req[p].userId)
        policyCheck == validatePayment(ctx)
        verdict == policyBlock(policyCheck)
    IN
    /\ pc[p] = "x402Initial"
    /\ IF parsed.status # "challenge"
       THEN /\ X402Return(p, parsed, 1, FALSE, FALSE)
            /\ UNCHANGED approvedSpendByUser
       ELSE
       /\ ValidationEffect(ctx, policyCheck)
       /\ IF verdict.status # "pay"
          THEN X402Return(p, verdict, 1, TRUE, FALSE)
          ELSE IF ~walletIdConfigured
          THEN X402Return(p, X402Failure("Payment failed"), 1, TRUE, FALSE)
          ELSE /\ Len(transactions) < MaxTx
               /\ pc' = [pc EXCEPT ![p] =
                      IF cachedTokenId THEN "x402Transfer" ELSE "x402Token"]
               /\ req' = [req EXCEPT ![p] =
                      [userId |-> req[p].userId, amount |-> resp.amount]]
               /\ UNCHANGED returned
    /\ UNCHANGED <<walletIdConfigured, wallet, balance, cachedTokenId,
                   transactions, policies, paymentsPaused, safeModeByUser,
                   now, txOf, ledgerLog>>

\* getUsdcTokenId answers inside transferUsdc (wallet.service.ts 349-352)
X402TokenResponse(p, found) ==
    /\ pc[p] = "x402Token"
    /\ IF found
       THEN /\ cachedTokenId' = TRUE
            /\ pc' = [pc EXCEPT ![p] = "x402Transfer"]
            /\ UNCHANGED <<returned, req>>
       ELSE /\ X402Return(p, X402Failure("Payment failed"), 1, TRUE, TRUE)
            /\ UNCHANGED cachedTokenId
    /\ UNCHANGED <<walletIdConfigured, wallet, balance, transactions,
                   policies, paymentsPaused, safeModeByUser,
                   approvedSpendByUser, now, txOf, ledgerLog>>

\* createTransaction answers (wallet.service.ts 365-409); lines 109-150:
\* on success the payment is recorded as confirmed and the request retried
X402TransferResponse(p, answer) ==
    /\ pc[p] = "x402Transfer"
    /\ IF answer = "ok"
       THEN /\ transactions' = recordTransaction(transactions,
                   Len(transactions) + 1,
                   [userId |-> req[p].userId, amount |-> req[p].amount,
                    status |-> "confirmed", category |-> "x402-api",
                    txHash |-> "0xhash"], now)
            /\ pc' = [pc EXCEPT ![p] = "x402Retry"]
            /\ UNCHANGED <<returned, req>>
       ELSE /\ X402Return(p, X402Failure("Payment failed"), 1, TRUE, TRUE)
            /\ UNCHANGED transactions
    /\ UNCHANGED <<walletIdConfigured, wallet, balance, cachedTokenId,
                   policies, paymentsPaused, safeModeByUser,
                   approvedSpendByUser, now, txOf, ledgerLog>>

\* lines 152-181: the retried request answers, or is rejected ("throw")
X402PaidResponse(p, status) ==
    /\ pc[p] = "x402Retry"
    /\ X402Return(p, IF status = "throw" THEN X402Failure("exception")
                     ELSE paidResult(status), 2, TRUE, TRUE)
    /\ UNCHANGED <<walletIdConfigured, wallet, balance, cachedTokenId,
                   transactions, policies, paymentsPaused, safeModeByUser,
                   approvedSpendByUser, now, txOf, ledgerLog>>

(***************************************************************************)
(* X402Spec: one x402Fetch handler against the wallet, the kill switch and *)
(* one per-transaction policy; MaxPaid payments are recorded at most.      *)
(***************************************************************************)
\* the rules of the policy that x402 payments are validated against
X402Rules == <<Rule("maxPerTransaction", [max |-> "0.01"])>>

X402Users == {"alice", NoUser}

NextX402 ==
    \/ \E circle \in {"live", "fail"}, amount \in {"0.01"} :
           InitializeWallet(circle, amount)
    \/ \E body \in KillSwitchBodies : SafetyUpdate(NoUser, body)
    \/ CreatePolicy("P", X402Rules)
    \/ \E id \in PolicyIds : DeletePolicy(id)
    \/ \E userId \in X402Users :
           Len(transactions) < MaxPaid /\ X402Fetch("h1", userId)
    \/ \E resp \in X402Responses : X402InitialResponse("h1", resp)
    \/ \E found \in BOOLEAN : X402TokenResponse("h1", found)
    \/ \E answer \in {"ok", "noId", "error"} :
           X402TransferResponse("h1", answer)
    \/ \E status \in {"200", "500", "throw"} : X402PaidResponse("h1", status)

X402Spec == Init /\ [][NextX402]_vars

X402Paying == {"x402Token", "x402Transfer"}

\* C17: on a valid challenge x402Fetch pays through the executor flow: while
\* the settlement provider is being invoked the challenge amount is held in
\* the ledger's reservation and lies within the balance, so no transfer is
\* attempted for an amount above the available balance, and once no
\* transfer is in flight the reservation has been released.
C17_PaysThroughExecutor ==
    \A p \in Procs :
        IF pc[p] \in X402Paying
        THEN /\ parseAmount(req[p].amount).n <= balance.reserved
             /\ balance.reserved <= balance.amount
        ELSE balance.reserved = 0

\* the first response carries decoded requirements that the policy engine
\* rejects, and handler p takes the step on it
PolicyBlockStep(p) ==
    \E resp \in X402Responses :
        /\ parseChallenge(resp).status = "challenge"
        /\ ~validatePayment(x402Context(resp, req[p].userId)).approved
        /\ X402InitialResponse(p, resp)

\* the call of handler p returns, having sent one request to the resource
\* and none to Circle, and leaves ledger and transactions as they were
StopsUnpaid(p) ==
    /\ pc'[p] = "idle"
    /\ ~returned'.success
    /\ ~returned'.paymentMade
    /\ ~returned'.circle
    /\ returned'.fetches = 1
    /\ UNCHANGED <<balance, transactions>>

\* C18: when the policy engine rejects the payment a 402 challenge demands,
\* x402Fetch returns success=false with policyBlocked=true and stops: the
\* settlement provider is not invoked and the resource is not requested a
\* second time.
C18_PolicyBlockStops ==
    [][\A p \in Procs :
           PolicyBlockStep(p) =>
               /\ StopsUnpaid(p)
               /\ returned'.policyBlocked
               /\ returned'.validated]_vars

\* a call returned as blocked by the per-transaction policy, the kill
\* switch being off
C18_Witness ==
    /\ returned.status = "x402"
    /\ returned.policyBlocked
    /\ returned.fetches = 1
    /\ ~paymentsPaused
    /\ Len(policies) = 1

\* a 402 response without usable payment requirements: no header, a header
\* that does not decode, a non-positive amount or an empty recipient
InvalidChallenge(resp) ==
    /\ resp.status = "402"
    /\ \/ resp.header \in {"none", "garbage"}
       \/ parseAmount(resp.amount).isNull
       \/ parseAmount(resp.amount).n <= 0
       \/ resp.recipient = ""

\* C19: on a 402 response with no challenge header, an undecodable header,
\* a non-positive amount or an empty recipient, x402Fetch returns a failure
\* without validating a payment, without invoking the settlement provider
\* and without re-issuing the request.
C19_InvalidChallengeFails ==
    [][\A p \in Procs : \A resp \in X402Responses :
           (InvalidChallenge(resp) /\ X402InitialResponse(p, resp)) =>
               /\ StopsUnpaid(p)
               /\ ~returned'.validated]_vars

ParseErrors == {"402 returned but no payment requirements",
                "Failed to parse payment requirements"}

ParseFailureStep(p) ==
    \E resp \in X402Responses :
        /\ resp.status = "402"
        /\ resp.header \in {"none", "garbage"}
        /\ X402InitialResponse(p, resp)

SettlementFailureStep(p) ==
    \/ \E resp \in X402Responses :
           /\ parseChallenge(resp).status = "challenge"
           /\ validatePayment(x402Context(resp, req[p].userId)).approved
           /\ ~walletIdConfigured
           /\ X402InitialResponse(p, resp)
    \/ X402TokenResponse(p, FALSE)
    \/ \E answer \in {"noId", "error"} : X402TransferResponse(p, answer)

\* the three failure modes before the retried request, each a failed result
\* of its own category
EarlyFailuresDistinct(p) ==
    /\ ParseFailureStep(p) =>
           ~returned'.success /\ returned'.error \in ParseErrors
    /\ PolicyBlockStep(p) =>
           ~returned'.success /\ returned'.error = "Payment blocked by policy"
    /\ SettlementFailureStep(p) =>
           ~returned'.success /\ returned'.error = "Payment failed"

C21_ConfirmedAtIffConfirmed ==
    \A i \in 1..Len(transactions) :
        transactions[i].confirmedAt # NoDate <=>
            transactions[i].status = "confirmed"

\* the status of transaction id in the log txs, "absent" before it exists
TxStatus(txs, id) ==
    IF \E i \in 1..Len(txs) : txs[i].id = id THEN StatusOf(txs, id)
    ELSE "absent"

\* one step of the life of transaction id: it is created pending by a step
\* that reserves funds, then goes from pending to confirmed or failed, and
\* never changes otherwise.  Without a configured wallet id transferUsdc
\* returns at once, and the step that created the transaction pending also
\* marks it failed.
TxLifeStep(id) ==
    TxStatus(transactions', id) # TxStatus(transactions, id) =>
        \/ /\ TxStatus(transactions, id) = "absent"
           /\ TxStatus(transactions', id) = "pending"
           /\ \E request \in ExecRequests :
                  /\ reserveFunds(balance, request.amount).ret
                  /\ balance' = reserveFunds(balance, request.amount).balance
        \/ /\ TxStatus(transactions, id) = "absent"
           /\ TxStatus(transactions', id) = "failed"
           /\ ~walletIdConfigured
           /\ returned'.txId = id
           /\ returned'.reserved
        \/ /\ TxStatus(transactions, id) = "pending"
           /\ TxStatus(transactions', id) \in {"confirmed", "failed"}

\* every step keeps to the life of each transaction
TxLifeSteps == [][\A id \in 1..MaxTx : TxLifeStep(id)]_vars

\* C22: every transaction recorded by executePayment is created Pending at
\* the moment funds are reserved and makes exactly one status transition, to
\* Confirmed or to Failed: it changes status in no other way, and a Pending
\* transaction does reach Confirmed or Failed.
C22_OneStatusTransition ==
    /\ TxLifeSteps
    /\ \A id \in 1..MaxTx :
           (TxStatus(transactions, id) = "pending") ~>
               (TxStatus(transactions, id) \in {"confirmed", "failed"})

\* C23: once deleteUserData(owner) has completed, none of the owner's
\* transactions and safety flags is returned or used by a later operation:
\* right after the deletion the transaction history of the owner is empty,
\* the confirmed history that the spend rules sum holds no transaction of
\* the owner, and both safety flags of the owner read false.
C23_DeletedDataUnused ==
    [][\A u \in Users :
           DeleteUserData(u) =>
               /\ getTransactionHistory(transactions', "any", NoDate, u) = <<>>
               /\ \A i \in 1..Len(transactions') :
                      transactions'[i].userId # u
               /\ ~safeModeByUser'[u]
               /\ ~approvedSpendByUser'[u]]_vars

\* the state that requests act on, the answer to the caller left aside
OwnedState ==
    <<walletIdConfigured, wallet, balance, cachedTokenId, transactions,
      policies, paymentsPaused, safeModeByUser, approvedSpendByUser>>

\* C24: a mutating or validating request that carries no owner identity is
\* rejected as a request-format error and changes no state, the kill switch
\* included: a payment without owner returns failed, and neither it nor a
\* safety update without owner changes anything.
C24_NoOwnerNoChange ==
    [][/\ \A p \in Procs : \A request \in ExecRequests :
              (request.userId = NoUser /\ ExecutePayment(p, request)) =>
                  /\ returned'.status = "failed"
                  /\ UNCHANGED OwnedState
       /\ \A body \in KillSwitchBodies :
              SafetyUpdate(NoUser, body) => UNCHANGED OwnedState]_vars

\* a step that refreshes the balance from the settlement provider
RefreshStep ==
    \E amount \in ProviderAmounts :
        GetBalance(amount) \/ InitializeWallet("live", amount)

MaxLog == 51

LogLimit == "1.00"

\* the rules of the policy "Daily" over the long log
LogRules == <<Rule("dailyLimit", [limit |-> LogLimit])>>

LogRequests ==
    [userId : {"alice"}, amount : {"0.01"}, recipient : {"0xabc"},
     category : {"api"}, approved : {"absent"}]

\* the log that hydrate() loads from the data store at startup: n
\* transactions of one owner confirmed on day 0, newest first, the oldest
\* one of amount first and the others of 0.01
HydratedLog(n, first) ==
    [i \in 1..n |->
        [id |-> n - i + 1, userId |-> "alice",
         amount |-> IF i = n THEN first ELSE "0.01",
         status |-> "confirmed", category |-> "api", txHash |-> "0xhash",
         createdAt |-> 0, confirmedAt |-> 0]]

InitLog ==
    /\ cachedTokenId = TRUE
    /\ \E n \in 0..MaxLog, first \in {"0.01", "1.00"} :
           transactions = HydratedLog(n, first)
    /\ policies = <<>>
    /\ paymentsPaused = FALSE
    /\ safeModeByUser = [u \in Users |-> FALSE]
    /\ approvedSpendByUser = [u \in Users |-> FALSE]
    /\ now = 0
    /\ pc = [p \in Procs |-> "idle"]
    /\ req = [p \in Procs |-> NoRequest]
    /\ txOf = [p \in Procs |-> 0]
    /\ returned = NoResult
    /\ ledgerLog = <<>>
    /\ walletIdConfigured = TRUE
    /\ wallet = TRUE
    /\ balance = refreshBalance(ZeroBalance, "1.00")

NextLog ==
    \/ \E name \in {"Daily"} : CreatePolicy(name, LogRules)
    \/ \E request \in LogRequests : ExecutePayment("h1", request)
    \/ \E answer \in {"ok", "error"} : TransferResponse("h1", answer)
    \/ NextDay

LogSpec == InitLog /\ [][NextLog]_vars

\* the confirmed transactions of the log whose effective date is not
\* before start
ConfirmedSince(start) ==
    SelectSeq(transactions, LAMBDA tx :
        tx.status = "confirmed" /\ effectiveDate(tx) >= start)

\* C26: the spend that dailyLimit, monthlyBudget and categoryLimit sum
\* includes every confirmed transaction of the window, however many
\* transactions the log holds (more than 50 included): none of the three
\* rules passes a payment that brings the sum of all the window's confirmed
\* transactions above the limit.
C26_SpendCountsWholeWindow ==
    \A ctx \in LogRequests :
        LET amount == parseAmount(ctx.amount).n
            limit == parseAmount(LogLimit).n
        IN  /\ dailyLimit([limit |-> LogLimit], ctx, transactions, now) =>
                   DecimalSum(ConfirmedSince(dayStart(now))) + amount <= limit
            /\ monthlyBudget([budget |-> LogLimit], ctx, transactions, now) =>
                   DecimalSum(ConfirmedSince(monthStart(now))) + amount
                       <= limit
            /\ categoryLimit([limits |-> ("api" :> LogLimit)], ctx,
                             transactions, now) =>
                   DecimalSum(ConfirmedSince(monthStart(now))) + amount
                       <= limit

\* a payment of request carries the approval flag, passes the kill switch
\* and the safe-mode gate, and is rejected by a policy
RejectedAfterGate(request) ==
    /\ request.approved = "true"
    /\ requiresApproval(request.userId)
    /\ ~isPaymentsPaused
    /\ ~validatePayment(request).approved

\* C27: a payment that carries approved = true, passes the safe-mode gate
\* and is then rejected by a policy does not record the one-time approval:
\* the owner's next payment without the flag is still blocked by
\* "Safe Mode".
C27_RejectedPaymentKeepsGate ==
    [][\A request \in PaidRequests :
           (RejectedAfterGate(request) /\ ExecutePayment("h1", request)) =>
               /\ approvedSpendByUser' = approvedSpendByUser
               /\ returned'.blockedBy \notin {"Safe Mode", "Kill Switch"}
               /\ \A next \in PaidRequests :
                      (next.userId = request.userId /\
                       next.approved # "true") =>
                          (validatePayment(next).blockedBy = "Safe Mode")']_vars

\* the payment of a safe-mode owner that carried the flag has just been
\* rejected by policy P, and no approval is recorded
C27_Witness ==
    /\ returned.status = "failed"
    /\ returned.blockedBy = "P"
    /\ \E u \in Users : safeModeByUser[u] /\ ~approvedSpendByUser[u]
    /\ \E request \in PaidRequests : RejectedAfterGate(request)

\* the positions of a handler that has a request to the settlement provider
\* in flight (the token lookup or the transfer, of executePayment or of
\* x402Fetch)
ProviderCalls == {"awaitToken", "awaitTransfer", "x402Token", "x402Transfer"}

\* handler p starts a call to the settlement provider in this step
StartsProviderCall(p) ==
    /\ pc'[p] \in ProviderCalls
    /\ pc'[p] # pc[p]

\* C28: in every state where paymentsPaused is true no call to the
\* settlement provider is started, whatever the interleaving of safety
\* updates with executePayment and x402Fetch, the payment attempts that
\* began before the kill switch was set included.
C28_NoProviderCallWhilePaused ==
    [][paymentsPaused => \A p \in Procs : ~StartsProviderCall(p)]_vars

\* ---- concurrent payments under a daily limit ----

\* the policy that hydratePoliciesFromStore loads at startup
DailyPolicy ==
    [id |-> 1, name |-> "Daily", enabled |-> TRUE,
     rules |-> DailyRules]

InitRace ==
    /\ cachedTokenId = TRUE
    /\ transactions = <<>>
    /\ policies = <<DailyPolicy>>
    /\ paymentsPaused = FALSE
    /\ safeModeByUser = [u \in Users |-> FALSE]
    /\ approvedSpendByUser = [u \in Users |-> FALSE]
    /\ now = 0
    /\ pc = [p \in Procs |-> "idle"]
    /\ req = [p \in Procs |-> NoRequest]
    /\ txOf = [p \in Procs |-> 0]
    /\ returned = NoResult
    /\ ledgerLog = <<>>
    /\ walletIdConfigured = TRUE
    /\ wallet = TRUE
    /\ balance = refreshBalance(ZeroBalance, "1.00")

NextRace ==
    \/ \E p \in Procs, request \in SpendRequests : ExecutePayment(p, request)
    \/ \E p \in Procs, answer \in {"ok", "error"} :
           TransferResponse(p, answer)
    \/ NextDay

RaceSpec == InitRace /\ [][NextRace]_vars

\* C29: while an enabled policy with dailyLimit L stays unchanged, the
\* amounts of the transactions confirmed through executePayment during one
\* calendar day never sum to more than L, whatever the interleaving of
\* concurrent executePayment calls.
C29_ConfirmedWithinDailyLimit ==
    policies = <<DailyPolicy>> =>
        DaySpend <= parseAmount(SpendLimit).n

\* ---- x402 fetch of an owner in safe mode ----

\* metadata of the body of POST /payments/x402/fetch
X402Metadata == [approved : {"true", "absent"}]

\* POST /payments/x402/fetch: the route requires the owner header and hands
\* the body's metadata to x402Fetch as a fifth argument; x402Fetch has four
\* parameters and builds the payment context from userId alone
X402FetchRoute(p, userId, metadata) ==
    /\ userId # NoUser
    /\ X402Fetch(p, userId)

SafeModeBodies ==
    [paymentsPaused : {"absent"}, safeMode : {"true", "false"},
     resetApproval : {FALSE}]

NextApproval ==
    \/ \E circle \in {"live", "fail"}, amount \in {"0.01"} :
           InitializeWallet(circle, amount)
    \/ \E userId \in Users, body \in SafeModeBodies :
           SafetyUpdate(userId, body)
    \/ CreatePolicy("P", X402Rules)
    \/ \E userId \in Users, metadata \in X402Metadata :
           Len(transactions) < MaxPaid /\ X402FetchRoute("h1", userId, metadata)
    \/ \E resp \in X402Responses : X402InitialResponse("h1", resp)
    \/ \E found \in BOOLEAN : X402TokenResponse("h1", found)
    \/ \E answer \in {"ok", "noId", "error"} :
           X402TransferResponse("h1", answer)
    \/ \E status \in {"200", "500", "throw"} : X402PaidResponse("h1", status)

ApprovalSpec == Init /\ [][NextApproval]_vars

\* the fetch in flight is one of an owner in safe mode without a recorded
\* approval, made with approved = true in its metadata (the metadata does
\* not reach the handler's state, so every fetch in flight may be such a
\* one), and resp is a valid challenge that arrives with the kill switch
\* off
ApprovedFetchChallenged(resp) ==
    /\ pc["h1"] = "x402Initial"
    /\ req["h1"].userId \in Users
    /\ requiresApproval(req["h1"].userId)
    /\ \E metadata \in X402Metadata : metadata.approved = "true"
    /\ ~isPaymentsPaused
    /\ parseChallenge(resp).status = "challenge"

\* C30: an owner in safe mode without a recorded approval who calls the
\* x402 fetch with approved = true in the request metadata passes the
\* safe-mode gate: the payment that a valid challenge demands is validated
\* against the policies and is not rejected with "Safe Mode".
C30_ApprovedFetchPassesGate ==
    [][\A resp \in X402Responses :
           (ApprovedFetchChallenged(resp) /\
            X402InitialResponse("h1", resp)) =>
               /\ validatePayment(x402Context(resp, req["h1"].userId))
                      .blockedBy # "Safe Mode"
               /\ (policies = <<>> => pc'["h1"] \in X402Paying)]_vars

(***************************************************************************)
(* LedgerSpec: the exported ledger operations called directly, in any      *)
(* order and with any amount, as the unit tests of wallet.service do.      *)
(* A call has no await inside, so it runs atomically; concurrent callers   *)
(* are the interleavings of whole calls.                                   *)
(***************************************************************************)
\* balances a wallet holds after initializeWallet / refreshBalance
StartBalances ==
    {[amount |-> t, reserved |-> 0, available |-> t] : t \in {10, 30, 100000}}

InitLedger ==
    /\ InitCommon
    /\ walletIdConfigured \in BOOLEAN
    /\ wallet = TRUE
    /\ balance \in StartBalances

ReserveFundsCall(amount) ==
    /\ Len(ledgerLog) < MaxCalls
    /\ LET r == reserveFunds(balance, amount)
       IN  /\ balance' = r.balance
           /\ ledgerLog' = Append(ledgerLog,
                  [op |-> "reserve", amount |-> amount, ret |-> r.ret,
                   before |-> balance, after |-> r.balance])
    /\ UNCHANGED <<walletIdConfigured, wallet, cachedTokenId, transactions,
                   policies, paymentsPaused, safeModeByUser,
                   approvedSpendByUser, now, pc, req, txOf, returned>>

ReleaseFundsCall(amount) ==
    /\ Len(ledgerLog) < MaxCalls
    /\ LET b == releaseFunds(balance, amount)
       IN  /\ balance' = b
           /\ ledgerLog' = Append(ledgerLog,
                  [op |-> "release", amount |-> amount, ret |-> TRUE,
                   before |-> balance, after |-> b])
    /\ UNCHANGED <<walletIdConfigured, wallet, cachedTokenId, transactions,
                   policies, paymentsPaused, safeModeByUser,
                   approvedSpendByUser, now, pc, req, txOf, returned>>

NextLedger ==
    \/ \E amount \in AmountStrings : ReserveFundsCall(amount)
    \/ \E amount \in AmountStrings : ReleaseFundsCall(amount)

LedgerSpec == InitLedger /\ [][NextLedger]_vars

RECURSIVE GrantedSum(_)
\* mills granted by the reserveFunds calls of a log that returned true
GrantedSum(log) ==
    IF log = <<>> THEN 0
    ELSE LET e == log[Len(log)]
         IN  GrantedSum(SubSeq(log, 1, Len(log) - 1)) +
             (IF e.op = "reserve" /\ e.ret THEN parseAmount(e.amount).n ELSE 0)

ReservesOnly(log) == \A i \in 1..Len(log) : log[i].op = "reserve"

\* C2: concurrent reserveFunds calls (any order of whole calls): a call with
\* a positive amount returns true exactly when the amount fits in the
\* available balance it finds, a call that returned false changed nothing,
\* and the granted amounts never sum to more than the balance available
\* before the calls.
C2_NoOverdraw ==
    (ledgerLog # <<>> /\ ReservesOnly(ledgerLog)) =>
        /\ \A i \in 1..Len(ledgerLog) :
              LET e == ledgerLog[i]
                  a == parseAmount(e.amount)
              IN  /\ (~a.isNull /\ a.n > 0) =>
                         (e.ret <=> a.n <= e.before.available)
                  /\ ~e.ret => e.after = e.before
        /\ GrantedSum(ledgerLog) <= ledgerLog[1].before.available

\* C3: after any sequence of reserveFunds / releaseFunds calls the balance
\* satisfies available + reserved = total, available >= 0, reserved >= 0.
C3_LedgerInvariant ==
    /\ balance.available + balance.reserved = balance.amount
    /\ balance.available >= 0
    /\ balance.reserved >= 0

====
